---- MODULE Spec2Model ----
(***************************************************************************)
(* The frame pipeline of app.py: extract_frames, the call of the external  *)
(* restoration engine, reconstruct_video, add_audio_to_video, and the      *)
(* try/except/finally of main() that sequences them inside a scoped        *)
(* temporary directory and stores the result in the Streamlit session.     *)
(*                                                                         *)
(* A file name is the sequence of the code points of its characters, so    *)
(* that Python's sorted() on names is the lexicographic order on those     *)
(* sequences.  A directory is the sequence of its entries; an entry is a   *)
(* record [name, frame, size]: the file's name, the decode index of the    *)
(* picture it holds and the picture's <<width, height>>.                   *)
(***************************************************************************)
EXTENDS Integers, Sequences, FiniteSets, TLC

\* ------------------------------------------------------------- bounds
\* Largest frame count of an uploaded source in Spec.
MaxFrames == 10
\* Number of "Enhance Video" clicks followed.
MaxRuns == 2
\* Frame count of the long source of SpecLong (one more than 10^PadWidth).
LongFrames == 10001

\* -------------------------------------------------- program constants
\* Minimum field width of the decode index in a frame's name (":04d").
PadWidth == 4
\* The index is formatted in decimal (":04d").
DecimalBase == 10
\* Upper end of the "Skip Frames" slider.
MaxSkip == 5
\* "--upscale", "2"
Upscale == 2

\* Resolution <<width, height>> of every frame a source decodes to.
SourceSize == <<4, 2>>

\* ------------------------------------------------------------- names
\* "frame_"
FramePrefix == <<102, 114, 97, 109, 101, 95>>
\* ".jpg"
JpgSuffix == <<46, 106, 112, 103>>

\* The decimal digits of n >= 0 as code points, most significant first.
RECURSIVE Digits(_)
Digits(n) ==
    IF n < DecimalBase THEN <<48 + n>>
    ELSE Append(Digits(n \div DecimalBase), 48 + (n % DecimalBase))

\* Left-pad with "0" up to a minimum width; a longer number is left as it is.
RECURSIVE ZeroPad(_, _)
ZeroPad(ds, width) ==
    IF Len(ds) >= width THEN ds ELSE ZeroPad(<<48>> \o ds, width)

\* f"{frame_count:04d}"
Format04d(n) == ZeroPad(Digits(n), PadWidth)

\* f"frame_{frame_count:04d}.jpg"
FrameName(frame_count) == FramePrefix \o Format04d(frame_count) \o JpgSuffix

\* str.endswith(".jpg")
EndsWithJpg(name) ==
    /\ Len(name) >= Len(JpgSuffix)
    /\ SubSeq(name, Len(name) - Len(JpgSuffix) + 1, Len(name)) = JpgSuffix

\* Python's < on str: the first differing code point decides, a proper
\* prefix is smaller.
RECURSIVE StrLess(_, _)
StrLess(a, b) ==
    IF a = <<>> THEN b # <<>>
    ELSE IF b = <<>> THEN FALSE
    ELSE IF a[1] # b[1] THEN a[1] < b[1]
    ELSE StrLess(Tail(a), Tail(b))

NameLess(e1, e2) == StrLess(e1.name, e2.name)

\* sorted([f for f in os.listdir(frame_dir) if f.endswith(".jpg")])
SortedJpgs(dir) == SortSeq(SelectSeq(dir, LAMBDA e : EndsWithJpg(e.name)), NameLess)

\* ---------------------------------------------------- extract_frames
\* A variant that divides by the stride itself instead of stride + 1.
IsWrittenNoSkipCount(frame_count, skip_frames) ==
    skip_frames = 0 \/ frame_count % skip_frames = 0

\* The write test of the loop body: frame_count % (skip_frames + 1) == 0.
IsWritten(frame_count, skip_frames) == frame_count % (skip_frames + 1) = 0

\* One iteration of "while True": cap.read() yields a frame while the decode
\* index is below the number of decodable frames; the frame is written when
\* the test holds, and the index advances either way.
LoopBody(st, decodable, skip_frames) ==
    IF st.frame_count >= decodable
    THEN [st EXCEPT !.ret = FALSE]
    ELSE [st EXCEPT
            !.dir = IF IsWritten(st.frame_count, skip_frames)
                    THEN Append(@, [name |-> FrameName(st.frame_count),
                                    frame |-> st.frame_count,
                                    size |-> SourceSize])
                    ELSE @,
            !.frame_count = @ + 1]

\* k iterations of the loop, none after cap.read() returned ret = False
\* (split in halves to bound the evaluation depth).
RECURSIVE Iterations(_, _, _, _)
Iterations(st, decodable, skip_frames, k) ==
    IF k = 0 \/ ~st.ret THEN st
    ELSE IF k = 1 THEN LoopBody(st, decodable, skip_frames)
    ELSE Iterations(Iterations(st, decodable, skip_frames, k \div 2),
                    decodable, skip_frames, k - (k \div 2))

\* The loop, until cap.read() returns ret = False.
RECURSIVE ExtractLoop(_, _, _)
ExtractLoop(st, decodable, skip_frames) ==
    IF ~st.ret THEN st
    ELSE ExtractLoop(Iterations(st, decodable, skip_frames, 1024),
                     decodable, skip_frames)

\* Frames cap.read() delivers: none when the capture could not be opened.
Decodable(src) == IF src.opens THEN src.frames ELSE 0

\* extract_frames(video_path, output_dir, skip_frames) on an empty output_dir:
\* the directory written and the frame_count returned.  (original_fps, the
\* second result, is handed to cv2.VideoWriter unchanged and is left out.)
ExtractFrames(src, skip_frames) ==
    ExtractLoop([frame_count |-> 0, dir |-> <<>>, ret |-> TRUE],
                Decodable(src), skip_frames)

\* ------------------------------------------------- reconstruct_video
\* What cv2.VideoWriter.write does with a frame whose size is not the
\* writer's: the library decides (the frame is dropped, stored as it is, or
\* the call raises); app.py does not look at the size.
MismatchOutcomes == {"drop", "store", "raise"}

\* The "for frame_name in frame_paths" loop on a writer of size `size`:
\* [frames: the frames in the container, raised: whether a write raised].
RECURSIVE WriteFrames(_, _, _, _)
WriteFrames(frame_paths, size, onMismatch, acc) ==
    IF frame_paths = <<>> THEN [frames |-> acc, raised |-> FALSE]
    ELSE LET e == Head(frame_paths) IN
         IF e.size = size \/ onMismatch = "store"
         THEN WriteFrames(Tail(frame_paths), size, onMismatch,
                          Append(acc, [frame |-> e.frame, size |-> e.size]))
         ELSE IF onMismatch = "drop"
         THEN WriteFrames(Tail(frame_paths), size, onMismatch, acc)
         ELSE [frames |-> acc, raised |-> TRUE]

\* A variant that builds the writer before it looks for frames.
ReconstructWriterFirst(dir, onMismatch) ==
    LET frame_paths == SortedJpgs(dir) IN
    IF frame_paths = <<>>
    THEN [error |-> "ValueError", created |-> TRUE, frames |-> <<>>]
    ELSE LET w == WriteFrames(frame_paths, frame_paths[1].size, onMismatch, <<>>) IN
         [error |-> IF w.raised THEN "cv2.error" ELSE "",
          created |-> TRUE, frames |-> w.frames]

\* reconstruct_video(frame_dir, output_path, original_fps):
\* [error: the exception raised ("" for none), created: whether the output
\* container was created at output_path, frames: the frames in it].
ReconstructVideo(dir, onMismatch) ==
    LET frame_paths == SortedJpgs(dir) IN
    IF frame_paths = <<>>
    THEN [error |-> "ValueError", created |-> FALSE, frames |-> <<>>]
    ELSE LET w == WriteFrames(frame_paths, frame_paths[1].size, onMismatch, <<>>) IN
         [error |-> IF w.raised THEN "cv2.error" ELSE "",
          created |-> TRUE, frames |-> w.frames]

\* ------------------------------------------------ add_audio_to_video
\* Where moviepy may fail for reasons of its own (a file it cannot read, a
\* codec it cannot write).
MuxFaults == {"none", "open_original", "open_enhanced", "write"}

\* add_audio_to_video(original_video_path, enhanced_video_path, output_path):
\* [error: the exception raised ("" for none), open: the clips the call
\* opened and did not close, written: whether output_path was written in full].
AddAudioToVideo(src, fault) ==
    IF ~src.opens \/ fault = "open_original"
    THEN [error |-> "OSError", open |-> {}, written |-> FALSE]
    ELSE IF fault = "open_enhanced"
    THEN [error |-> "OSError", open |-> {"original_clip"}, written |-> FALSE]
    ELSE IF ~src.audio
    THEN [error |-> "AttributeError",
          open |-> {"original_clip", "enhanced_clip"}, written |-> FALSE]
    ELSE IF fault = "write"
    THEN [error |-> "OSError",
          open |-> {"original_clip", "enhanced_clip", "final_clip"},
          written |-> FALSE]
    ELSE [error |-> "", open |-> {}, written |-> TRUE]

\* ------------------------------------------------ the external engine
\* gfpgan_process is opaque to app.py.  It either raises or returns having
\* written restored images named like its inputs: into the sub-directory
\* restored_imgs or into the output root, for every input or for none, every
\* image upscaled, or the image at position `odd` (0: none) left at its
\* input size.
EngineLayouts == {"nested", "flat"}
EngineKeeps == {"all", "none"}
OddPositions == 0 .. 2

Upscaled(size) == <<Upscale * size[1], Upscale * size[2]>>

EngineOutputs(inputs, keep, odd) ==
    IF keep = "none" THEN <<>>
    ELSE [k \in 1 .. Len(inputs) |->
            [inputs[k] EXCEPT !.size = IF k = odd THEN @ ELSE Upscaled(@)]]

\* --------------------------------------------------------------- state
VARIABLES
    pc,                    \* where main() stands
    uploaded_file,         \* <<>> or <<source>>: st.file_uploader's value
    enhanced_video_bytes,  \* st.session_state.enhanced_video_bytes, <<>> for None
    show_results,          \* st.session_state.show_results
    history,               \* the outcome of every run so far, the last one last
    skip_frames,           \* the slider's value in this run
    tmp_dir,               \* the paths that exist under tmp_dir
    frame_dir,             \* the entries of tmp_dir/frames
    frame_count,           \* extract_frames' first result
    results_dir,           \* the images directly in tmp_dir/results
    restored_imgs,         \* the images in tmp_dir/results/restored_imgs
    video,                 \* the frames in enhanced_no_audio.mp4
    final_file,            \* <<>> or <<run>>: what enhanced_final.mp4 holds
    open_clips,            \* the moviepy clips opened and not closed
    calls,                 \* the stage and library calls of this run, in order
    failed_stage,          \* the stage whose call raised, "" for none
    error                  \* the exception caught, "" for none

vars == <<pc, uploaded_file, enhanced_video_bytes, show_results, history,
          skip_frames, tmp_dir, frame_dir, frame_count, results_dir,
          restored_imgs, video, final_file, open_clips, calls, failed_stage,
          error>>

session == <<enhanced_video_bytes, show_results>>
files == <<tmp_dir, frame_dir, results_dir, restored_imgs, video, final_file>>
locals == <<skip_frames, frame_count, open_clips, calls, failed_stage, error>>

\* A source video: whether cv2 can open it, the frames it decodes to, and
\* whether it carries an audio track.
Sources(counts) ==
    {[opens |-> TRUE, frames |-> n, audio |-> a] : n \in counts, a \in BOOLEAN}
    \cup {[opens |-> FALSE, frames |-> 0, audio |-> FALSE]}

Source == uploaded_file[1]
Run == Len(history)
Outcome == IF history = <<>> THEN "none" ELSE history[Len(history)]

Init ==
    /\ pc = "idle"
    /\ uploaded_file = <<>>
    /\ enhanced_video_bytes = <<>>
    /\ show_results = FALSE
    /\ history = <<>>
    /\ skip_frames = 0
    /\ tmp_dir = {}
    /\ frame_dir = <<>>
    /\ frame_count = 0
    /\ results_dir = <<>>
    /\ restored_imgs = <<>>
    /\ video = <<>>
    /\ final_file = <<>>
    /\ open_clips = {}
    /\ calls = <<>>
    /\ failed_stage = ""
    /\ error = ""

\* The user picks a file in the uploader.
Upload(counts) ==
    /\ pc = "idle"
    /\ \E src \in Sources(counts) : uploaded_file' = <<src>>
    /\ UNCHANGED <<pc, session, history, files, locals>>

\* A variant that leaves the previous result in the session.
RunStartSessionKept(bytes, show) == [bytes |-> bytes, show |-> show]

\* "Clear previous results" at the head of the try block.
RunStartSession(bytes, show) == [bytes |-> <<>>, show |-> FALSE]

\* "Enhance Video" is clicked: the temporary directory exists, the upload is
\* copied to input.mp4, the previous result is cleared, frames/ is made.
\* (A script run without the click makes and removes the directory and
\* changes nothing else.)
StartRun ==
    /\ pc = "idle"
    /\ uploaded_file # <<>>
    /\ Len(history) < MaxRuns
    /\ \E s \in 0 .. MaxSkip : skip_frames' = s
    /\ LET ss == RunStartSession(enhanced_video_bytes, show_results) IN
         /\ enhanced_video_bytes' = ss.bytes
         /\ show_results' = ss.show
    /\ history' = Append(history, "running")
    /\ tmp_dir' = {"input.mp4", "frames"}
    /\ pc' = "extract"
    /\ UNCHANGED <<uploaded_file, frame_dir, results_dir, restored_imgs, video,
                   final_file, frame_count, open_clips, calls, failed_stage, error>>

\* frame_count, original_fps = extract_frames(input_path, frame_dir, skip_frames)
extract_frames ==
    /\ pc = "extract"
    /\ LET st == ExtractFrames(Source, skip_frames) IN
         /\ frame_dir' = st.dir
         /\ frame_count' = st.frame_count
    /\ calls' = Append(calls, "extract_frames")
    /\ pc' = "enhance"
    /\ UNCHANGED <<uploaded_file, session, history, skip_frames, tmp_dir,
                   results_dir, restored_imgs, video, final_file, open_clips,
                   failed_stage, error>>

\* results/ is made and gfpgan_process(args_list) is called.
gfpgan_process ==
    /\ pc = "enhance"
    /\ calls' = Append(calls, "gfpgan_process")
    /\ \/ /\ pc' = "except"
          /\ failed_stage' = "enhance"
          /\ error' = "EngineError"
          /\ tmp_dir' = tmp_dir \cup {"results"}
          /\ UNCHANGED <<results_dir, restored_imgs>>
       \/ \E layout \in EngineLayouts, keep \in EngineKeeps, odd \in OddPositions :
            LET out == EngineOutputs(frame_dir, keep, odd) IN
            /\ pc' = "reconstruct"
            /\ IF layout = "nested"
               THEN /\ tmp_dir' = tmp_dir \cup {"results", "results/restored_imgs"}
                    /\ restored_imgs' = out
                    /\ results_dir' = <<>>
               ELSE /\ tmp_dir' = tmp_dir \cup {"results"}
                    /\ restored_imgs' = <<>>
                    /\ results_dir' = out
            /\ UNCHANGED <<failed_stage, error>>
    /\ UNCHANGED <<uploaded_file, session, history, skip_frames, frame_dir,
                   frame_count, video, final_file, open_clips>>

\* restored_dir: results/restored_imgs when it exists, else results.
RestoredDir ==
    IF "results/restored_imgs" \in tmp_dir THEN restored_imgs ELSE results_dir

\* reconstruct_video(restored_dir, enhanced_video_path, original_fps)
reconstruct_video ==
    /\ pc = "reconstruct"
    /\ calls' = Append(calls, "reconstruct_video")
    /\ \E onMismatch \in MismatchOutcomes :
         LET r == ReconstructVideo(RestoredDir, onMismatch) IN
         /\ video' = r.frames
         /\ tmp_dir' = IF r.created THEN tmp_dir \cup {"enhanced_no_audio.mp4"}
                       ELSE tmp_dir
         /\ IF r.error = ""
            THEN pc' = "mux" /\ UNCHANGED <<failed_stage, error>>
            ELSE pc' = "except" /\ failed_stage' = "reconstruct" /\ error' = r.error
    /\ UNCHANGED <<uploaded_file, session, history, skip_frames, frame_dir,
                   frame_count, results_dir, restored_imgs, final_file, open_clips>>

\* add_audio_to_video(input_path, enhanced_video_path, final_output_path)
add_audio_to_video ==
    /\ pc = "mux"
    /\ calls' = Append(calls, "add_audio_to_video")
    /\ \E fault \in MuxFaults :
         LET r == AddAudioToVideo(Source, fault) IN
         /\ open_clips' = r.open
         /\ IF r.written
            THEN /\ tmp_dir' = tmp_dir \cup {"enhanced_final.mp4"}
                 /\ final_file' = <<Run>>
            ELSE UNCHANGED <<tmp_dir, final_file>>
         /\ IF r.error = ""
            THEN pc' = "store" /\ UNCHANGED <<failed_stage, error>>
            ELSE pc' = "except" /\ failed_stage' = "mux" /\ error' = r.error
    /\ UNCHANGED <<uploaded_file, session, history, skip_frames, frame_dir,
                   frame_count, results_dir, restored_imgs, video>>

\* The final file is read into the session and show_results is set.
StoreResult ==
    /\ pc = "store"
    /\ enhanced_video_bytes' = final_file
    /\ show_results' = TRUE
    /\ history' = [history EXCEPT ![Len(history)] = "done"]
    /\ pc' = "finally"
    /\ UNCHANGED <<uploaded_file, files, locals>>

\* except Exception as e: st.error(...)
ExceptHandler ==
    /\ pc = "except"
    /\ history' = [history EXCEPT ![Len(history)] = "failed"]
    /\ pc' = "finally"
    /\ UNCHANGED <<uploaded_file, session, files, locals>>

\* A variant that releases only after a run that succeeded.
FinallyOnSuccessOnly ==
    /\ pc = "finally"
    /\ calls' = IF Outcome = "done" THEN Append(calls, "empty_cache") ELSE calls
    /\ pc' = "exit"
    /\ UNCHANGED <<uploaded_file, session, history, files, skip_frames,
                   frame_count, open_clips, failed_stage, error>>

\* finally: torch.cuda.empty_cache()
Finally ==
    /\ pc = "finally"
    /\ calls' = Append(calls, "empty_cache")
    /\ pc' = "exit"
    /\ UNCHANGED <<uploaded_file, session, history, files, skip_frames,
                   frame_count, open_clips, failed_stage, error>>

\* A variant that removes the directory only after a run that succeeded.
ExitTmpDirOnSuccessOnly ==
    /\ pc = "exit"
    /\ IF Outcome = "done"
       THEN /\ tmp_dir' = {}
            /\ frame_dir' = <<>>
            /\ results_dir' = <<>>
            /\ restored_imgs' = <<>>
            /\ video' = <<>>
            /\ final_file' = <<>>
       ELSE UNCHANGED files
    /\ pc' = "display"
    /\ UNCHANGED <<uploaded_file, session, history, locals>>

\* The "with tempfile.TemporaryDirectory()" block is left: the directory and
\* everything in it is removed.
ExitTmpDir ==
    /\ pc = "exit"
    /\ tmp_dir' = {}
    /\ frame_dir' = <<>>
    /\ results_dir' = <<>>
    /\ restored_imgs' = <<>>
    /\ video' = <<>>
    /\ final_file' = <<>>
    /\ pc' = "display"
    /\ UNCHANGED <<uploaded_file, session, history, locals>>

\* The stored result is what the page shows.
Surfaced == show_results /\ enhanced_video_bytes # <<>>

\* The display section runs and main() returns: its locals are gone (clips
\* left open are then only closed by their finalizers).
Display ==
    /\ pc = "display"
    /\ pc' = "idle"
    /\ skip_frames' = 0
    /\ frame_count' = 0
    /\ open_clips' = {}
    /\ calls' = <<>>
    /\ failed_stage' = ""
    /\ error' = ""
    /\ UNCHANGED <<uploaded_file, session, history, files>>

\* "Clear Results" is clicked under a displayed result.
ClearResults ==
    /\ pc = "idle"
    /\ Surfaced
    /\ enhanced_video_bytes' = <<>>
    /\ show_results' = FALSE
    /\ UNCHANGED <<pc, uploaded_file, history, files, locals>>

Pipeline ==
    \/ StartRun
    \/ extract_frames
    \/ gfpgan_process
    \/ reconstruct_video
    \/ add_audio_to_video
    \/ StoreResult
    \/ ExceptHandler
    \/ Finally
    \/ ExitTmpDir
    \/ Display
    \/ ClearResults

Next == Upload(0 .. MaxFrames) \/ Pipeline

Spec == Init /\ [][Next]_vars

\* The same program given a source longer than the names' padding covers,
\* followed up to the end of extraction.
NextLong ==
    \/ Upload((0 .. MaxFrames) \cup {LongFrames})
    \/ StartRun
    \/ extract_frames

SpecLong == Init /\ [][NextLong]_vars

\* -------------------------------------------------------- properties
Calls == {calls[i] : i \in DOMAIN calls}
Frames(dir) == [k \in DOMAIN dir |-> dir[k].frame]
CeilDiv(n, d) == (n + d - 1) \div d
Ascending(seq) == \A k \in 1 .. Len(seq) - 1 : seq[k] < seq[k + 1]
\* Some frame of the sorted listing differs in size from the first.
Mismatched(dir) ==
    LET frame_paths == SortedJpgs(dir) IN
    \E k \in DOMAIN frame_paths : frame_paths[k].size # frame_paths[1].size

\* C1: after extract_frames on a source of N decodable frames with stride s,
\* frames/ holds exactly ceil(N / (s+1)) files, the pictures at the decode
\* indices 0, s+1, 2(s+1), ... below N, and frame_count is N.
C1_StrideSampling ==
    pc = "enhance" =>
        LET N == Decodable(Source)
            s == skip_frames
        IN  /\ Len(frame_dir) = CeilDiv(N, s + 1)
            /\ Frames(frame_dir) =
                 [k \in 1 .. CeilDiv(N, s + 1) |-> (k - 1) * (s + 1)]
            /\ \A k \in DOMAIN frame_dir :
                 frame_dir[k].name = FrameName(frame_dir[k].frame)
            /\ frame_count = N

\* C1 witness: the spec's example, N = 10 and s = 2 writes 0, 3, 6, 9.
C1_Witness ==
    /\ pc = "enhance"
    /\ Decodable(Source) = 10
    /\ skip_frames = 2
    /\ Frames(frame_dir) = <<0, 3, 6, 9>>

\* C2: the names extract_frames wrote, sorted as reconstruct_video sorts
\* them, are in ascending decode-index order, whatever the frame count.
C2_SortOrderIsDecodeOrder ==
    pc = "enhance" => Ascending(Frames(SortedJpgs(frame_dir)))

\* C3: when the source cannot be opened or decodes to no frame, the run
\* fails in the extraction stage, and neither the engine nor the
\* reconstruction is called.
C3_UnreadableSourceStopsRun ==
    (pc \notin {"idle", "extract"} /\ Decodable(Source) = 0) =>
        /\ failed_stage = "extract"
        /\ "gfpgan_process" \notin Calls
        /\ "reconstruct_video" \notin Calls

\* C4: reconstruct_video on frames that do not all have the first frame's
\* size fails with FrameDimensionMismatch, creates no container and writes
\* no frame.
C4_MismatchFails ==
    ("reconstruct_video" \in Calls /\ Mismatched(RestoredDir)) =>
        /\ failed_stage = "reconstruct"
        /\ error = "FrameDimensionMismatch"
        /\ "enhanced_no_audio.mp4" \notin tmp_dir
        /\ video = <<>>

\* C5: a source without an audio track does not make add_audio_to_video
\* fail: the missing track is never the error that ends the run.
C5_NoAudioNotFatal ==
    ("add_audio_to_video" \in Calls /\ ~Source.audio) =>
        ~(failed_stage = "mux" /\ error = "AttributeError")

\* C6: reconstruct_video on a directory without a .jpg file fails with an
\* error, and no container exists at the output path afterwards.
C6_EmptyFrameSetFails ==
    ("reconstruct_video" \in Calls /\ "results" \in tmp_dir
       /\ SortedJpgs(RestoredDir) = <<>>) =>
        /\ failed_stage = "reconstruct"
        /\ error = "ValueError"
        /\ Outcome # "done"
        /\ "enhanced_no_audio.mp4" \notin tmp_dir
        /\ video = <<>>

\* C6 witness: the engine returned no image for a source that had frames,
\* and reconstruction has failed.
C6_Witness ==
    /\ pc = "except"
    /\ failed_stage = "reconstruct"
    /\ frame_dir # <<>>
    /\ SortedJpgs(RestoredDir) = <<>>
    /\ "enhanced_no_audio.mp4" \notin tmp_dir

\* C7: a result is surfaced only when the most recent run completed all
\* four stages, and it is that run's final file; a failed run leaves
\* enhanced_video_bytes None and show_results False.
C7_NoPartialResult ==
    /\ Surfaced => (Outcome = "done" /\ enhanced_video_bytes = <<Run>>)
    /\ (Surfaced /\ pc # "idle") =>
          {"extract_frames", "gfpgan_process", "reconstruct_video",
           "add_audio_to_video"} \subseteq Calls
    /\ Outcome \in {"running", "failed"} =>
          (enhanced_video_bytes = <<>> /\ ~show_results)

\* C7 witness: a run has failed after an earlier run had succeeded.
C7_Witness ==
    /\ pc = "display"
    /\ Len(history) = 2
    /\ history[1] = "done"
    /\ history[2] = "failed"
    /\ ~Surfaced

\* C8: a run that called the engine has called torch.cuda.empty_cache after
\* it by the time the try statement is left.
C8_ReleaseAfterEngine ==
    (pc \in {"exit", "display"} /\ "gfpgan_process" \in Calls) =>
        \E i, j \in DOMAIN calls :
            /\ i < j
            /\ calls[i] = "gfpgan_process"
            /\ calls[j] = "empty_cache"

\* C8 witness: the engine raised and the try statement has been left.
C8_Witness ==
    /\ pc = "exit"
    /\ failed_stage = "enhance"
    /\ calls[Len(calls)] = "empty_cache"

\* C9: once the run has ended, nothing of the working directory is left:
\* not the input copy, the frames, the engine's results, the silent video
\* or the final file.
C9_WorkingDirRemoved ==
    pc \in {"display", "idle"} =>
        /\ tmp_dir = {}
        /\ frame_dir = <<>>
        /\ results_dir = <<>>
        /\ restored_imgs = <<>>
        /\ video = <<>>
        /\ final_file = <<>>

\* C9 witness: a run that failed while muxing, after every intermediate
\* had been made, has ended.
C9_Witness ==
    /\ pc = "display"
    /\ failed_stage = "mux"
    /\ Outcome = "failed"
    /\ tmp_dir = {}

\* C10: after add_audio_to_video has returned or raised, no clip it opened
\* is still open.
C10_ClipsClosed ==
    "add_audio_to_video" \in Calls => open_clips = {}

====
